---- MODULE Spec2Model ----
(***************************************************************************)
(* Model of package snow (t73f.de/r/zero/snow): the 64-bit Key, its        *)
(* base-32 text codec (Parse, String, Format) and the key Generator.       *)
(*                                                                         *)
(* A uint64 keeps its width: it is a tuple of four 16-bit limbs, and the    *)
(* shifts, masks, subtractions and comparisons are computed modulo 2^64.   *)
(* A string is a sequence of byte values 0..255.                           *)
(*                                                                         *)
(* Model of package oso (t73f.de/r/zero/oso): File, which writes to a      *)
(* temporary file that Close renames to the destination.                   *)
(***************************************************************************)
EXTENDS Integers, Sequences, FiniteSets, TLC

(* ------------------------------------------------------------------ *)
(* uint64 arithmetic                                                    *)
(*                                                                      *)
(* A uint64 is the tuple of its four 16-bit limbs, least significant    *)
(* first: << l1, l2, l3, l4 >> is l1 + l2*2^16 + l3*2^32 + l4*2^48.     *)
(* ------------------------------------------------------------------ *)

Base == 2^16

Limbs == 1..4

Zero == << 0, 0, 0, 0 >>

AllOnes == << Base - 1, Base - 1, Base - 1, Base - 1 >>

(* the uint64 with the value n, for a natural number n < 2^31 *)
FromNat(n) == << n % Base, n \div Base, 0, 0 >>

(* the value of x as a natural number, for x < 2^31 *)
ToNat(x) == x[1] + x[2] * Base

LimbAt(x, k) == IF k \in Limbs THEN x[k] ELSE 0

(* x << n and x >> n, for any n >= 0 (0 when n >= 64, as in Go) *)
Shl(x, n) ==
  LET q == n \div 16
      r == n % 16
      l(k) == ((LimbAt(x, k - q) % (2^(16 - r))) * (2^r))
              + (LimbAt(x, k - q - 1) \div (2^(16 - r)))
  IN  << l(1), l(2), l(3), l(4) >>

Shr(x, n) ==
  LET q == n \div 16
      r == n % 16
      l(k) == (LimbAt(x, k + q) \div (2^r))
              + ((LimbAt(x, k + q + 1) % (2^r)) * (2^(16 - r)))
  IN  << l(1), l(2), l(3), l(4) >>

RECURSIVE OrNat(_, _)
OrNat(a, b) ==
  IF a = 0 THEN b
  ELSE IF b = 0 THEN a
  ELSE (IF a % 2 = 1 \/ b % 2 = 1 THEN 1 ELSE 0) + 2 * OrNat(a \div 2, b \div 2)

RECURSIVE AndNat(_, _)
AndNat(a, b) ==
  IF a = 0 \/ b = 0 THEN 0
  ELSE (IF a % 2 = 1 /\ b % 2 = 1 THEN 1 ELSE 0) + 2 * AndNat(a \div 2, b \div 2)

BitOr(x, y) ==
  << OrNat(x[1], y[1]), OrNat(x[2], y[2]), OrNat(x[3], y[3]), OrNat(x[4], y[4]) >>

BitAnd(x, y) ==
  << AndNat(x[1], y[1]), AndNat(x[2], y[2]), AndNat(x[3], y[3]), AndNat(x[4], y[4]) >>

BitNot(x) == << Base - 1 - x[1], Base - 1 - x[2], Base - 1 - x[3], Base - 1 - x[4] >>

(* x < y as unsigned numbers *)
Lt(x, y) ==
  \E k \in Limbs : x[k] < y[k] /\ \A j \in (k + 1)..4 : x[j] = y[j]

(* x + y + c modulo 2^64, c the carry into the lowest limb *)
AddCarry(x, y, c) ==
  LET s1 == x[1] + y[1] + c
      s2 == x[2] + y[2] + (s1 \div Base)
      s3 == x[3] + y[3] + (s2 \div Base)
      s4 == x[4] + y[4] + (s3 \div Base)
  IN  << s1 % Base, s2 % Base, s3 % Base, s4 % Base >>

Add(x, y) == AddCarry(x, y, 0)

(* x - y modulo 2^64: x + ^y + 1 *)
Sub(x, y) == AddCarry(x, BitNot(y), 1)

(* ------------------------------------------------------------------ *)
(* Key and the constants of the package                                 *)
(* ------------------------------------------------------------------ *)

Invalid == Zero

timestampBits == 42

randomBits == 22

(* 1<<timestampBits - 1 *)
maxTimeStamp == Sub(Shl(FromNat(1), timestampBits), FromNat(1))

MaxAppBits == 20

(* 1717200000000 = 0x18FD1189400 = 399 * 2^32 + 53528 * 2^16 + 37888 *)
epochAdjust == << 37888, 53528, 399, 0 >>

IsInvalid(key) == key = Invalid

IsValid(key) == key # Invalid

(* Key.Time() as Unix milliseconds *)
Time(key) == Add(Shr(key, randomBits), epochAdjust)

(* ------------------------------------------------------------------ *)
(* Text codec: Parse, String, Format                                    *)
(* ------------------------------------------------------------------ *)

(* const base32chars = "0123456789ABCDEFGHJKMNPQRSTVWXYZ" *)
base32chars ==
  << 48, 49, 50, 51, 52, 53, 54, 55, 56, 57, 65, 66, 67, 68, 69, 70,
     71, 72, 74, 75, 77, 78, 80, 81, 82, 83, 84, 86, 87, 88, 89, 90 >>

(* a slip: the entry of 'l' (0x6c) is -1 *)
decode32map_NoLowerL ==
  << 0, 1, 2, 3, 4, 5, 6, 7, 8, 9, -1, -1, -1, -1, -1, -1,
     -1, 10, 11, 12, 13, 14, 15, 16, 17, 1, 18, 19, 1, 20, 21, 0,
     22, 23, 24, 25, 26, 36, 27, 28, 29, 30, 31, -1, -1, -1, -1, -1,
     -1, 10, 11, 12, 13, 14, 15, 16, 17, 1, 18, 19, -1, 20, 21, 0,
     22, 23, 24, 25, 26, -1, 27, 28, 29, 30, 31, -1, -1, -1, -1, -1 >>

(* var decode32map = [...]int8{...}: the entries for the bytes 0x30 .. 0x7f *)
decode32map ==
  << 0, 1, 2, 3, 4, 5, 6, 7, 8, 9, -1, -1, -1, -1, -1, -1,
     -1, 10, 11, 12, 13, 14, 15, 16, 17, 1, 18, 19, 1, 20, 21, 0,
     22, 23, 24, 25, 26, 36, 27, 28, 29, 30, 31, -1, -1, -1, -1, -1,
     -1, 10, 11, 12, 13, 14, 15, 16, 17, 1, 18, 19, 1, 20, 21, 0,
     22, 23, 24, 25, 26, -1, 27, 28, 29, 30, 31, -1, -1, -1, -1, -1 >>

(* a slip: 0xFC00000000000000 *)
TopSixMask == << 0, 0, 0, 64512 >>

(* a slip: 0xF000000000000000 *)
TopFourMask == << 0, 0, 0, 61440 >>

(* 0xF800000000000000 *)
TopFiveMask == << 0, 0, 0, 63488 >>

(* a slip: a '-' at the last position is skipped too *)
Skipped_AlsoLast(s, i) == s[i] = 45 /\ i > 1

(* ch == '-' && i > 0 && i < len(s)-1, for the position i counted from 1 *)
Skipped(s, i) == s[i] = 45 /\ i > 1 /\ i < Len(s)

(* the loop of Parse from the byte at position i (counted from 1) on.  The
   result is the returned key and the error: "nil", "fit" (does not fit in
   uint64), "char" (non base-32 character), or "panic" when the index into
   decode32map is out of range and the Go runtime panics *)
RECURSIVE ParseFrom(_, _, _)
ParseFrom(s, i, result) ==
  IF i > Len(s) THEN [key |-> result, err |-> "nil"]
  ELSE LET ch == s[i]
       IN  IF Skipped(s, i)
           THEN ParseFrom(s, i + 1, result)
           ELSE IF 48 <= ch /\ ch <= 128
           THEN IF ch - 48 >= Len(decode32map)
                THEN [key |-> Invalid, err |-> "panic"]
                ELSE LET val == decode32map[ch - 48 + 1]
                     IN  IF 0 <= val /\ val <= 31
                         THEN IF BitAnd(result, TopFiveMask) # Zero
                              THEN [key |-> Invalid, err |-> "fit"]
                              ELSE ParseFrom(s, i + 1,
                                             BitOr(Shl(result, 5), FromNat(val)))
                         ELSE [key |-> result, err |-> "char"]
           ELSE [key |-> result, err |-> "char"]

Parse(s) == ParseFrom(s, 1, Zero)

(* the digits that reverseEncode writes, least significant first *)
RECURSIVE EncodeLoop(_)
EncodeLoop(u64) ==
  IF u64 = Zero THEN << >>
  ELSE << base32chars[(u64[1] % 32) + 1] >> \o EncodeLoop(Shr(u64, 5))

(* temp := [13]byte{} *)
TempLen == 13

reverseEncode(key) ==
  LET d == EncodeLoop(key)
  IN  [temp |-> [i \in 1..TempLen |-> IF i <= Len(d) THEN d[i] ELSE 0],
       tpos |-> Len(d)]

(* a slip: the case key == 0 is missing *)
String_NoZeroCase(key) ==
  LET r == reverseEncode(key)
  IN  [i \in 1..r.tpos |-> r.temp[r.tpos - i + 1]]

String(key) ==
  IF key = Zero THEN << 48 >>
  ELSE LET r == reverseEncode(key)
       IN  [i \in 1..r.tpos |-> r.temp[r.tpos - i + 1]]

(* a slip: the mask of group size 5 is 0b0000100001000 *)
sepMask_FiveFromLeft == << 0, 4095, 1365, 585, 273, 264, 65, 32, 16, 8, 4, 2, 1 >>

(* var sepMask = []uint16{...} *)
sepMask == << 0, 4095, 1365, 585, 273, 132, 65, 32, 16, 8, 4, 2, 1 >>

(* for tpos > 0 { tpos--; sb.WriteByte(temp[tpos]); ...; mask /= 2 } *)
RECURSIVE FormatLoop(_, _, _, _)
FormatLoop(temp, tpos, mask, sep) ==
  IF tpos = 0 THEN << >>
  ELSE << temp[tpos] >> \o (IF mask % 2 = 1 THEN sep ELSE << >>)
       \o FormatLoop(temp, tpos - 1, mask \div 2, sep)

(* temp after the loop that fills it up with '0' *)
Padded(key) ==
  LET r == reverseEncode(key)
  IN  [i \in 1..TempLen |-> IF i > r.tpos THEN 48 ELSE r.temp[i]]

(* a slip: without separators the digits are not reversed *)
Format_Unreversed(key, groupSize, sep) ==
  LET gs == IF groupSize <= 0 THEN 1 ELSE groupSize
      temp == Padded(key)
  IN  IF sep = << >> \/ gs >= TempLen
      THEN temp
      ELSE FormatLoop(temp, TempLen, sepMask[gs + 1], sep)

(* a slip: the mask is taken from sepMask[groupSize-1] *)
Format_MaskOffByOne(key, groupSize, sep) ==
  LET gs == IF groupSize <= 0 THEN 1 ELSE groupSize
      temp == Padded(key)
  IN  IF sep = << >> \/ gs >= TempLen
      THEN [i \in 1..TempLen |-> temp[TempLen - i + 1]]
      ELSE FormatLoop(temp, TempLen, sepMask[gs], sep)

(* a slip: groupSize < 0 instead of groupSize <= 0 *)
Format_ZeroNotClamped(key, groupSize, sep) ==
  LET gs == IF groupSize < 0 THEN 1 ELSE groupSize
      temp == Padded(key)
  IN  IF sep = << >> \/ gs >= TempLen
      THEN [i \in 1..TempLen |-> temp[TempLen - i + 1]]
      ELSE FormatLoop(temp, TempLen, sepMask[gs + 1], sep)

Format(key, groupSize, sep) ==
  LET gs == IF groupSize <= 0 THEN 1 ELSE groupSize
      temp == Padded(key)
  IN  IF sep = << >> \/ gs >= TempLen
      THEN [i \in 1..TempLen |-> temp[TempLen - i + 1]]
      ELSE FormatLoop(temp, TempLen, sepMask[gs + 1], sep)

(* strings.Join(strings.Split(s, sep), "") *)
RECURSIVE RemoveFrom(_, _, _)
RemoveFrom(s, i, sep) ==
  IF i > Len(s) THEN << >>
  ELSE IF /\ i + Len(sep) - 1 <= Len(s)
          /\ \A j \in 1..Len(sep) : s[i + j - 1] = sep[j]
       THEN RemoveFrom(s, i + Len(sep), sep)
       ELSE << s[i] >> \o RemoveFrom(s, i + 1, sep)

RemoveAll(s, sep) == IF sep = << >> THEN s ELSE RemoveFrom(s, 1, sep)

(* ------------------------------------------------------------------ *)
(* Generator                                                            *)
(* ------------------------------------------------------------------ *)

(* var generator snow.Generator *)
ZeroGenerator == [lastTS |-> Zero, nextSeq |-> 0, appBits |-> 0, appMax |-> 0]

(* a slip: appBits >= MaxAppBits *)
NewPanics_OrEqual(appBits) == appBits >= MaxAppBits

NewPanics(appBits) == appBits > MaxAppBits

New(appBits) ==
  [lastTS |-> Zero, nextSeq |-> 0, appBits |-> appBits, appMax |-> 2^appBits]

(* a slip: appID > gen.appMax *)
OutOfRange_Greater(g, appID) == appID > 0 /\ appID > g.appMax

(* the range check at the head of Create *)
OutOfRange(g, appID) == appID > 0 /\ appID >= g.appMax

(* a slip: milli >= gen.lastTS *)
TimeAdvanced_OrEqual(g, milli) == ~ Lt(milli, g.lastTS)

(* the branch taken under the mutex: milli > gen.lastTS *)
TimeAdvanced(g, milli) == Lt(g.lastTS, milli)

(* a slip: gen.nextSeq++ is missing *)
CriticalSection_NoIncrement(g, milli) ==
  IF TimeAdvanced(g, milli)
  THEN [gen |-> [g EXCEPT !.lastTS = milli, !.nextSeq = 1], seq |-> 0]
  ELSE [gen |-> g, seq |-> g.nextSeq]

(* a slip: a new millisecond does not start the sequence numbers again *)
CriticalSection_NoReset(g, milli) ==
  IF TimeAdvanced(g, milli)
  THEN [gen |-> [g EXCEPT !.lastTS = milli, !.nextSeq = g.nextSeq + 1],
        seq |-> g.nextSeq]
  ELSE [gen |-> [g EXCEPT !.nextSeq = g.nextSeq + 1], seq |-> g.nextSeq]

(* a slip: a new millisecond sets gen.nextSeq = 0 *)
CriticalSection_ResetToZero(g, milli) ==
  IF TimeAdvanced(g, milli)
  THEN [gen |-> [g EXCEPT !.lastTS = milli, !.nextSeq = 0], seq |-> 0]
  ELSE [gen |-> [g EXCEPT !.nextSeq = g.nextSeq + 1], seq |-> g.nextSeq]

(* the body of the critical section: the new fields and the sequence value *)
CriticalSection(g, milli) ==
  IF TimeAdvanced(g, milli)
  THEN [gen |-> [g EXCEPT !.lastTS = milli, !.nextSeq = 1], seq |-> 0]
  ELSE [gen |-> [g EXCEPT !.nextSeq = g.nextSeq + 1], seq |-> g.nextSeq]

SeqLimit(g) == 2^(randomBits - g.appBits)

(* a slip: seq <= 1 << (randomBits - gen.appBits) *)
SeqFits_OrEqual(g, seq) == seq <= SeqLimit(g)

SeqFits(g, seq) == seq < SeqLimit(g)

TimestampOf(milli) == Sub(milli, epochAdjust)

(* a slip: the comparison is made on int64(ts) *)
TimestampPanics_Signed(ts) == ts[4] < 2^15 /\ Lt(maxTimeStamp, ts)

TimestampPanics(ts) == Lt(maxTimeStamp, ts)

(* k := (ts << randomBits) | (uint64(appID) << (randomBits - gen.appBits)) | seq *)
Assemble(g, ts, appID, seq) ==
  BitOr(BitOr(Shl(ts, randomBits), Shl(FromNat(appID), randomBits - g.appBits)),
        FromNat(seq))

Mask22 == FromNat(2^randomBits - 1)

(* a slip: the shift by MaxAppBits - appBits instead of randomBits - appBits *)
AppID_WrongShift(g, key) ==
  IF g.appBits > 0
  THEN ToNat(Shr(BitAnd(key, Mask22), MaxAppBits - g.appBits))
  ELSE 0

AppID(g, key) ==
  IF g.appBits > 0
  THEN ToNat(Shr(BitAnd(key, Mask22), randomBits - g.appBits))
  ELSE 0

(* gen.appMax - 1 as a 64-bit uint *)
MaxAppID(g) == Sub(FromNat(g.appMax), FromNat(1))

KeySeq(g, key) ==
  ToNat(BitAnd(BitAnd(key, Mask22), FromNat(2^(randomBits - g.appBits) - 1)))

(* ------------------------------------------------------------------ *)
(* Bounds and inputs of the model                                       *)
(* ------------------------------------------------------------------ *)

NumCallers == 2

MaxTicks == 1

MaxCalls == 5

MaxSeqCalls == 5

MaxNextSeq == 6

MaxPairCalls == 2

MaxUsedCalls == 5

MaxWrites == 3

HistLen == 2

Callers == 1..NumCallers

(* widths handed to New by a single caller: the whole range 0..MaxAppBits
   and the first rejected width *)
AppBitsInputs == 0..(MaxAppBits + 1)

(* widths handed to New when several goroutines share the generator: the
   width with the smallest sequence space, and the first rejected width *)
SharedAppBitsInputs == {MaxAppBits, MaxAppBits + 1}

(* discriminators handed to Create by a single caller: the ends of the
   range and the first value outside it (1 for the zero-value Generator) *)
AppIDInputs(g) ==
  IF g.appMax = 0 THEN {0, 1} ELSE {0, g.appMax - 1, g.appMax}

(* discriminators handed to Create by concurrent callers: the upper end of
   the range *)
SharedAppIDInputs(g) == IF g.appMax = 0 THEN {0} ELSE {g.appMax - 1}

(* the clock starts one millisecond before the epoch, or one millisecond
   before the last millisecond of the 42-bit range, or at that last one *)
ClockStarts ==
  { Sub(epochAdjust, FromNat(1)),
    Add(epochAdjust, Sub(maxTimeStamp, FromNat(1))),
    Add(epochAdjust, maxTimeStamp) }

(* with concurrent callers the clock starts at the epoch *)
SharedClockStarts == { epochAdjust }

(* keys handed to String and Format: 0, 1, 31, 32, 2^22, 2^59 - 1, 2^59,
   2^63, 2^64 - 1, and keys whose digits together are the whole alphabet *)
KeyInputs ==
  { Zero, FromNat(1), FromNat(31), FromNat(32), << 0, 64, 0, 0 >>,
    << 65535, 65535, 65535, 2047 >>, << 0, 0, 0, 2048 >>, << 0, 0, 0, 32768 >>,
    AllOnes,
    << 53942, 9001, 44668, 42417 >>,   (* "ABCDEFGHJKMNP" *)
    << 9976, 19572, 17185, 61444 >>,   (* "F0123456789QR" *)
    << 0, 48640, 31983, 7403 >>,       (* "1STVWXYZ00000" *)
    << 23589, 61862, 38315, 1804 >> }  (* "0E34NNFRTCQ15" *)

GroupSizeInputs == (0 - 1)..(TempLen + 1)

(* separators: "", "-", "//", "U", "-+-", the byte 0x80, and "3" *)
SeparatorInputs ==
  { << >>, << 45 >>, << 47, 47 >>, << 85 >>, << 45, 43, 45 >>, << 128 >>, << 51 >> }

Bytes == 0..255

(* texts of 13 and 14 digits around 2^64: any digit, or '0' and any digit,
   before twelve times '0' or twelve times 'Z' *)
BoundaryTexts ==
  LET twelve(z) == [i \in 1..(TempLen - 1) |-> z]
  IN  UNION { { << base32chars[k] >> \o twelve(z),
                << 48, base32chars[k] >> \o twelve(z) } :
              k \in 1..Len(base32chars), z \in {48, 90} }

(* texts handed to Parse: every byte alone, at the start, at the end and in
   the middle of a text, the texts around 2^64, and the texts of the tests *)
TextInputs ==
  BoundaryTexts \cup
  { << b >> : b \in Bytes } \cup { << 49, b >> : b \in Bytes }
  \cup { << b, 49 >> : b \in Bytes } \cup { << 49, b, 50 >> : b \in Bytes }
  \cup
  { << 48, 48, 48, 48, 48, 48, 48, 48, 48, 48, 48, 48, 48 >>  (* "0000000000000" *),
    << 48, 48, 45, 48, 48, 48, 45, 48, 48, 48, 45, 48, 48, 45, 48, 48, 48 >>  (* "00-000-000-00-000" *),
    << 48, 48, 48, 45, 48, 48, 48, 45, 48, 48, 48, 45, 48, 48, 45, 48, 48 >>  (* "000-000-000-00-00" *),
    << 48, 45, 48, 48, 45, 48, 45, 48, 45, 48, 45, 48, 45, 48, 45, 48, 45, 48, 45, 48, 45, 48, 45, 48 >>  (* "0-00-0-0-0-0-0-0-0-0-0-0" *),
    << 48, 48, 48, 48, 48, 48, 48, 48, 48, 48, 48, 48, 49 >>  (* "0000000000001" *),
    << 48, 69, 51, 52, 78, 78, 70, 82, 84, 67, 81, 49, 53 >>  (* "0E34NNFRTCQ15" *),
    << 48, 68, 88, 90, 66, 69, 50, 68, 55, 84, 66, 48, 52 >>  (* "0DXZBE2D7TB04" *),
    << 45, 48, 48, 48, 48, 48, 48, 48, 48, 48, 48, 48, 48, 48 >>  (* "-0000000000000" *),
    << 48, 48, 48, 48, 48, 48, 48, 48, 48, 48, 48, 48, 48, 45 >>  (* "0000000000000-" *),
    << 48, 68, 88, 90, 66, 69, 50, 68, 55, 60, 62, 48, 52 >>  (* "0DXZBE2D7<>04" *),
    << 49, 68, 88, 90, 66, 69, 50, 68, 55, 84, 66, 48, 52, 48 >>  (* "1DXZBE2D7TB040" *),
    << 70, 90, 90, 90, 90, 90, 90, 90, 90, 90, 90, 90, 90 >>  (* "FZZZZZZZZZZZZ" *),
    << 70, 45, 122, 122, 45, 90, 90, 90, 90, 90, 90, 90, 90, 45, 122, 122 >>  (* "F-zz-ZZZZZZZZ-zz" *),
    << 45, 49 >>  (* "-1" *),
    <<  >>  (* "" *),
    << 45, 45 >>  (* "--" *),
    << 49, 45, 45, 50 >>  (* "1--2" *),
    << 49, 45, 50, 45, 51 >>  (* "1-2-3" *),
    << 71, 48, 48, 48, 48, 48, 48, 48, 48, 48, 48, 48, 48 >>  (* "G000000000000" *),
    << 70, 90, 90, 90, 90, 90, 90, 90, 90, 90, 90, 90, 90, 48 >>  (* "FZZZZZZZZZZZZ0" *),
    << 48, 48, 48, 48, 48, 48, 48, 48, 48, 48, 48, 48, 48, 48 >>  (* "00000000000000" *),
    << 48, 70, 90, 90, 90, 90, 90, 90, 90, 90, 90, 90, 90, 90 >>  (* "0FZZZZZZZZZZZZ" *),
    << 105, 108, 49, 76, 111, 79, 48 >>  (* "il1LoO0" *),
    << 49, 73, 49 >>  (* "1I1" *),
    << 65, 66, 67, 68, 69, 70, 71, 72, 74, 75, 77, 78, 80 >>  (* "ABCDEFGHJKMNP" *),
    << 97, 98, 99, 100, 101, 102, 103, 104, 106, 107, 109, 110, 112 >>  (* "abcdefghjkmnp" *),
    << 48, 112, 113, 114, 115, 116, 118, 119, 120, 121, 122 >>  (* "0pqrstvwxyz" *),
    << 48, 80, 81, 82, 83, 84, 86, 87, 88, 89, 90 >>  (* "0PQRSTVWXYZ" *),
    << 70, 48, 49, 50, 51, 52, 53, 54, 55, 56, 57, 81, 82 >>  (* "F0123456789QR" *),
    << 49, 83, 84, 86, 87, 88, 89, 90, 48, 48, 48, 48, 48 >>  (* "1STVWXYZ00000" *),
    << 70, 90, 90, 90, 90, 90, 90, 90, 90, 90, 90, 90, 90, 48, 45 >>  (* "FZZZZZZZZZZZZ0-" *),
    << 49, 45, 50, 45 >>  (* "1-2-" *),
    << 49, 45, 45 >>  (* "1--" *),
    << 128, 45 >>  (* "\x80-" *),
    << 48, 48, 48, 48, 48, 48, 48, 48, 48, 48, 48, 48, 48, 48, 45 >>  (* "00000000000000-" *) }

(* the data handed to Write, WriteString and ReadFrom *)
DataInputs == { << >>, << 72 >>, << 79, 83 >> }

(* the destination before SafeWrite: absent, or a file with some content *)
PathInputs == { [exists |-> FALSE, data |-> << >>], [exists |-> TRUE, data |-> << 111 >>] }

(* ------------------------------------------------------------------ *)
(* State                                                                *)
(* ------------------------------------------------------------------ *)

VARIABLES
  phase,    \* "new" before the generator exists, "run" after, "failed" if New panicked
  newBits,  \* the appBits handed to New; -1 while New has not been called
  gen,      \* the Generator: lastTS, nextSeq, appBits, appMax
  mx,       \* gen.mx: 0 when free, else the caller that holds it
  now,      \* time.Now().UnixMilli() as uint64
  ticks,    \* number of clock ticks so far
  pc,       \* position of each caller inside Create
  loc,      \* locals of each caller's running Create call
  hist,     \* the last HistLen calls that returned a key, in order of their return
  aborted,  \* the last call that panicked: kind "range" with the discriminator
            \* that was rejected, or kind "epoch"; kind "none" before
  nret,     \* number of Create calls that have returned a key
  calls,    \* number of Create calls started
  ckey,     \* the key handed to String and Format
  cgroup,   \* the group size handed to Format
  csep,     \* the separator handed to Format
  ctext,    \* the text handed to Parse
  cout,     \* the last codec operation and what it returned
  file,     \* the *oso.File: nil, or its fields tmpf and err
  tmpFile,  \* the temporary file under its temporary name
  pathFile, \* the file at the destination path
  before,   \* the file at the destination path when SafeWrite was called
  wrote,    \* the data of the write calls that reported no error, in order
  nwrites,  \* number of write calls so far
  opres     \* the last oso operation, what it returned, whether it panicked

genVars == << phase, newBits, gen, mx, now, ticks, pc, loc, hist, aborted, nret, calls >>

codecVars == << ckey, cgroup, csep, ctext, cout >>

osoVars == << file, tmpFile, pathFile, before, wrote, nwrites, opres >>

vars == << genVars, codecVars, osoVars >>

NoAbort == [kind |-> "none", rejected |-> 0]

NoResult == [op |-> "none", str |-> << >>, key |-> Invalid, err |-> "nil"]

(* appID: the argument; milli, seq: the locals of Create; inv: the number of
   calls that had returned when this one was invoked; tries: the number of
   loop iterations; csTS: gen.lastTS when the call left the critical section *)
NoLocals == [appID |-> 0, milli |-> Zero, seq |-> 0, inv |-> 0, tries |-> 0,
             csTS |-> Zero]

(* the record of a call that returned a key; ret: its position among the
   returned calls *)
Finished(l, key, ret) ==
  [appID |-> l.appID, key |-> key, milli |-> l.milli, seq |-> l.seq,
   inv |-> l.inv, ret |-> ret, tries |-> l.tries, csTS |-> l.csTS]

(* the last HistLen returned calls *)
Remember(h, r) ==
  LET a == Append(h, r)
  IN  IF Len(a) > HistLen THEN Tail(a) ELSE a

GenInit(starts) ==
  /\ phase = "new"
  /\ newBits = -1
  /\ gen = ZeroGenerator
  /\ mx = 0
  /\ now \in starts
  /\ ticks = 0
  /\ pc = [c \in Callers |-> "idle"]
  /\ loc = [c \in Callers |-> NoLocals]
  /\ hist = << >>
  /\ aborted = NoAbort
  /\ nret = 0
  /\ calls = 0

CodecInit(keys, groups, seps, texts) ==
  /\ ckey \in keys
  /\ cgroup \in groups
  /\ csep \in seps
  /\ ctext \in texts
  /\ cout = NoResult

(* no file is there and SafeWrite has not been called *)
NoFile == [exists |-> FALSE, data |-> << >>]

NilFile == [isNil |-> TRUE, tmpf |-> "nil", err |-> "nil"]

NoCall == [op |-> "none", err |-> "nil", panicked |-> FALSE]

OsoInit(paths) ==
  /\ file = NilFile
  /\ tmpFile = NoFile
  /\ pathFile \in paths
  /\ before = pathFile
  /\ wrote = << >>
  /\ nwrites = 0
  /\ opres = NoCall

InitWith(starts) ==
  /\ GenInit(starts)
  /\ CodecInit({Invalid}, {0}, {<< >>}, {<< >>})
  /\ OsoInit({NoFile})

(* ------------------------------------------------------------------ *)
(* Actions                                                              *)
(* ------------------------------------------------------------------ *)

(* generator := snow.New(appBits) *)
NewGenerator(inputs) ==
  /\ phase = "new"
  /\ \E appBits \in inputs :
       /\ newBits' = appBits
       /\ IF NewPanics(appBits)
          THEN phase' = "failed" /\ gen' = gen
          ELSE phase' = "run" /\ gen' = New(appBits)
  /\ UNCHANGED << osoVars, codecVars, mx, now, ticks, pc, loc, hist, aborted, nret, calls >>

(* var generator snow.Generator: the zero value is used as it is *)
UseZeroValue ==
  /\ phase = "new"
  /\ phase' = "run"
  /\ UNCHANGED << osoVars, codecVars, newBits, gen, mx, now, ticks, pc, loc, hist, aborted, nret, calls >>

(* the wall clock advances by one millisecond *)
Tick ==
  /\ ticks < MaxTicks
  /\ now' = Add(now, FromNat(1))
  /\ ticks' = ticks + 1
  /\ UNCHANGED << osoVars, codecVars, phase, newBits, gen, mx, pc, loc, hist, aborted, nret, calls >>

(* gen.Create(appID) is called: the range check *)
Invoke(c, limit, appID) ==
  /\ phase = "run"
  /\ pc[c] = "idle"
  /\ calls < limit
  /\ calls' = calls + 1
  /\ LET l == [NoLocals EXCEPT !.appID = appID, !.inv = nret]
     IN  IF OutOfRange(gen, appID)
         THEN /\ aborted' = [kind |-> "range", rejected |-> appID]
              /\ UNCHANGED << pc, loc >>
         ELSE /\ loc' = [loc EXCEPT ![c] = l]
              /\ pc' = [pc EXCEPT ![c] = "read"]
              /\ aborted' = aborted
  /\ UNCHANGED << osoVars, codecVars, phase, newBits, gen, mx, now, ticks, hist, nret >>

(* milli := uint64(time.Now().UnixMilli()) *)
ReadClock(c) ==
  /\ pc[c] = "read"
  /\ loc' = [loc EXCEPT ![c].milli = now, ![c].tries = @ + 1]
  /\ pc' = [pc EXCEPT ![c] = "lock"]
  /\ UNCHANGED << osoVars, codecVars, phase, newBits, gen, mx, now, ticks, hist, aborted, nret, calls >>

(* a slip: the critical section is entered without waiting for the mutex *)
Lock_NoWait(c) ==
  /\ pc[c] = "lock"
  /\ mx' = c
  /\ pc' = [pc EXCEPT ![c] = "cs"]
  /\ UNCHANGED << osoVars, codecVars, phase, newBits, gen, now, ticks, loc, hist, aborted, nret, calls >>

(* gen.mx.Lock() *)
Lock(c) ==
  /\ pc[c] = "lock"
  /\ mx = 0
  /\ mx' = c
  /\ pc' = [pc EXCEPT ![c] = "cs"]
  /\ UNCHANGED << osoVars, codecVars, phase, newBits, gen, now, ticks, loc, hist, aborted, nret, calls >>

(* the critical section up to and including gen.mx.Unlock() *)
Unlock(c) ==
  /\ pc[c] = "cs"
  /\ mx = c
  /\ LET r == CriticalSection(gen, loc[c].milli)
     IN  /\ gen' = r.gen
         /\ loc' = [loc EXCEPT ![c].seq = r.seq, ![c].csTS = r.gen.lastTS]
  /\ mx' = 0
  /\ pc' = [pc EXCEPT ![c] = "check"]
  /\ UNCHANGED << osoVars, codecVars, phase, newBits, now, ticks, hist, aborted, nret, calls >>

(* the sequence value fits: the key is assembled and returned, or the
   timestamp check panics *)
Return(c) ==
  /\ pc[c] = "check"
  /\ SeqFits(gen, loc[c].seq)
  /\ LET ts == TimestampOf(loc[c].milli)
     IN  IF TimestampPanics(ts)
         THEN /\ aborted' = [kind |-> "epoch", rejected |-> 0]
              /\ UNCHANGED << hist, nret >>
         ELSE /\ hist' = Remember(hist, Finished(loc[c],
                            Assemble(gen, ts, loc[c].appID, loc[c].seq), nret + 1))
              /\ nret' = nret + 1
              /\ aborted' = aborted
  /\ pc' = [pc EXCEPT ![c] = "idle"]
  /\ loc' = [loc EXCEPT ![c] = NoLocals]
  /\ UNCHANGED << osoVars, codecVars, phase, newBits, gen, mx, now, ticks, calls >>

(* the sequence space of the millisecond is used up *)
Exhausted(c) ==
  /\ pc[c] = "check"
  /\ ~ SeqFits(gen, loc[c].seq)
  /\ pc' = [pc EXCEPT ![c] = "sleep"]
  /\ UNCHANGED << osoVars, codecVars, phase, newBits, gen, mx, now, ticks, loc, hist, aborted, nret, calls >>

(* time.Sleep(1 * time.Millisecond) is over and the loop starts again.  The
   model stops retrying against a standing clock once nextSeq is MaxNextSeq *)
Sleep(c) ==
  /\ pc[c] = "sleep"
  /\ gen.nextSeq < MaxNextSeq \/ Lt(gen.lastTS, now)
  /\ pc' = [pc EXCEPT ![c] = "read"]
  /\ UNCHANGED << osoVars, codecVars, phase, newBits, gen, mx, now, ticks, loc, hist, aborted, nret, calls >>

(* any number of goroutines call Create on the one generator *)
Init == InitWith(SharedClockStarts)

Next ==
  \/ NewGenerator(SharedAppBitsInputs)
  \/ UseZeroValue
  \/ Tick
  \/ \E c \in Callers :
       \/ \E appID \in SharedAppIDInputs(gen) : Invoke(c, MaxCalls, appID)
       \/ ReadClock(c)
       \/ Lock(c)
       \/ Unlock(c)
       \/ Return(c)
       \/ Exhausted(c)
       \/ Sleep(c)

Spec == Init /\ [][Next]_vars

(* snow.New(MaxAppBits) after it has returned, to one goroutine in the epoch
   millisecond, the keys with the sequence values 0 .. n-1 *)
UsedGenerator(n) ==
  [New(MaxAppBits) EXCEPT !.lastTS = epochAdjust, !.nextSeq = n]

UsedKey(i) ==
  LET g == New(MaxAppBits)
      l == [NoLocals EXCEPT !.appID = g.appMax - 1, !.milli = epochAdjust,
                            !.seq = i - 1, !.inv = i - 1, !.tries = 1,
                            !.csTS = epochAdjust]
  IN  Finished(l, Assemble(g, Zero, l.appID, l.seq), i)

RECURSIVE UsedHist(_)
UsedHist(n) == IF n = 0 THEN << >> ELSE Remember(UsedHist(n - 1), UsedKey(n))

(* the generator has used up the sequence values of the epoch millisecond *)
InitUsed ==
  LET n == SeqLimit(New(MaxAppBits))
  IN  /\ phase = "run"
      /\ newBits = MaxAppBits
      /\ gen = UsedGenerator(n)
      /\ mx = 0
      /\ now = epochAdjust
      /\ ticks = 0
      /\ pc = [c \in Callers |-> "idle"]
      /\ loc = [c \in Callers |-> NoLocals]
      /\ hist = UsedHist(n)
      /\ aborted = NoAbort
      /\ nret = n
      /\ calls = n
      /\ CodecInit({Invalid}, {0}, {<< >>}, {<< >>})
      /\ OsoInit({NoFile})

(* the steps of goroutines that call Create at most limit times *)
NextCallers(limit) ==
  \/ Tick
  \/ \E c \in Callers :
       \/ \E appID \in SharedAppIDInputs(gen) : Invoke(c, limit, appID)
       \/ ReadClock(c)
       \/ Lock(c)
       \/ Unlock(c)
       \/ Return(c)
       \/ Exhausted(c)
       \/ Sleep(c)

(* a few more calls of the goroutines, with every interleaving of their steps *)
NextPair == NextCallers(SeqLimit(New(MaxAppBits)) + MaxPairCalls)

SpecPair == InitUsed /\ [][NextPair]_vars

(* calls enough to use up the sequence values of a second millisecond *)
NextUsed == NextCallers(SeqLimit(New(MaxAppBits)) + MaxUsedCalls)

SpecUsed == InitUsed /\ [][NextUsed]_vars

(* one goroutine calls Create again and again *)
InitSeq == InitWith(ClockStarts)

NextSeq ==
  \/ NewGenerator(AppBitsInputs)
  \/ UseZeroValue
  \/ Tick
  \/ \E appID \in AppIDInputs(gen) : Invoke(1, MaxSeqCalls, appID)
  \/ ReadClock(1)
  \/ Lock(1)
  \/ Unlock(1)
  \/ Return(1)
  \/ Exhausted(1)
  \/ Sleep(1)

SpecSeq == InitSeq /\ [][NextSeq]_vars

(* ------------------------------------------------------------------ *)
(* The codec applied to the inputs                                      *)
(* ------------------------------------------------------------------ *)

(* ckey.String() *)
StringOp ==
  /\ cout' = [NoResult EXCEPT !.op = "String", !.str = String(ckey)]
  /\ UNCHANGED << osoVars, genVars, ckey, cgroup, csep, ctext >>

(* ckey.Format(cgroup, csep) *)
FormatOp ==
  /\ cout' = [NoResult EXCEPT !.op = "Format", !.str = Format(ckey, cgroup, csep)]
  /\ UNCHANGED << osoVars, genVars, ckey, cgroup, csep, ctext >>

(* snow.Parse(ckey.String()), as checkParse does *)
ParseStringOp ==
  /\ LET s == String(ckey)
         r == Parse(s)
     IN  cout' = [op |-> "ParseString", str |-> s, key |-> r.key, err |-> r.err]
  /\ UNCHANGED << osoVars, genVars, ckey, cgroup, csep, ctext >>

(* snow.Parse(strings.Join(strings.Split(ckey.Format(cgroup, csep), csep), "")) *)
ParseFormatOp ==
  /\ LET s == RemoveAll(Format(ckey, cgroup, csep), csep)
         r == Parse(s)
     IN  cout' = [op |-> "ParseFormat", str |-> s, key |-> r.key, err |-> r.err]
  /\ UNCHANGED << osoVars, genVars, ckey, cgroup, csep, ctext >>

(* snow.Parse(ctext) *)
ParseOp ==
  /\ LET r == Parse(ctext)
     IN  cout' = [op |-> "Parse", str |-> ctext, key |-> r.key, err |-> r.err]
  /\ UNCHANGED << osoVars, genVars, ckey, cgroup, csep, ctext >>

InitFormat ==
  /\ GenInit({epochAdjust})
  /\ CodecInit(KeyInputs, GroupSizeInputs, SeparatorInputs, {<< >>})
  /\ OsoInit({NoFile})

NextFormat == StringOp \/ FormatOp \/ ParseStringOp \/ ParseFormatOp

SpecFormat == InitFormat /\ [][NextFormat]_vars

InitParse ==
  /\ GenInit({epochAdjust})
  /\ CodecInit({Invalid}, {0}, {<< >>}, TextInputs)
  /\ OsoInit({NoFile})

NextParse == ParseOp

SpecParse == InitParse /\ [][NextParse]_vars

(* ------------------------------------------------------------------ *)
(* Package oso: File, a file that is written to a temporary file and    *)
(* renamed to its destination by Close                                  *)
(* ------------------------------------------------------------------ *)

(* cmp.Or of two errors: the first that is not nil *)
CmpOr(a, b) == IF a # "nil" THEN a ELSE b

(* the file system, the File and the outcome of a call, for the operators
   that follow *)
OsoState ==
  [file |-> file, tmp |-> tmpFile, path |-> pathFile,
   ret |-> "nil", panicked |-> FALSE]

(* os.Remove(f.tmpf.Name()): the method Name of os.File dereferences its
   receiver, and panics on a nil one *)
RemoveTemp(s) ==
  IF s.file.tmpf = "nil"
  THEN [s EXCEPT !.panicked = TRUE]
  ELSE [s EXCEPT !.tmp = NoFile]

(* the deferred function of Close *)
Deferred(s, disableRollback) == IF disableRollback THEN s ELSE RemoveTemp(s)

FileClose_NoErrCheck(s, errSync, errClose, errRename) ==
  IF s.file.tmpf = "nil"
  THEN [s EXCEPT !.ret = s.file.err]
  ELSE LET t == [s EXCEPT !.file.tmpf = "nil"]
           err == CmpOr(errSync, errClose)
       IN  IF err # "nil"
           THEN Deferred([t EXCEPT !.file.err = CmpOr(@, err),
                                   !.ret = CmpOr(t.file.err, err)], FALSE)
           ELSE IF errRename = "nil"
           THEN Deferred([t EXCEPT !.path = [exists |-> TRUE, data |-> t.tmp.data],
                                   !.tmp = NoFile,
                                   !.ret = t.file.err], TRUE)
           ELSE Deferred([t EXCEPT !.file.err = CmpOr(@, errRename),
                                   !.ret = CmpOr(t.file.err, errRename)], FALSE)

(* f.Close(), with the outcomes of tmpf.Sync(), tmpf.Close() and os.Rename *)
FileClose(s, errSync, errClose, errRename) ==
  IF s.file.tmpf = "nil"
  THEN [s EXCEPT !.ret = s.file.err]
  ELSE LET t == [s EXCEPT !.file.tmpf = "nil"]
           err == CmpOr(errSync, errClose)
       IN  IF t.file.err # "nil"
           THEN Deferred([t EXCEPT !.ret = t.file.err], FALSE)
           ELSE IF err # "nil"
           THEN Deferred([t EXCEPT !.file.err = err, !.ret = err], FALSE)
           ELSE IF errRename = "nil"
           THEN Deferred([t EXCEPT !.path = [exists |-> TRUE, data |-> t.tmp.data],
                                   !.tmp = NoFile,
                                   !.ret = "nil"], TRUE)
           ELSE Deferred([t EXCEPT !.file.err = errRename, !.ret = errRename], FALSE)

(* f.processError(err); the Close it calls finds f.err set and returns
   before it looks at the outcomes of Sync and Close *)
processError(s, err) ==
  IF err # "nil"
  THEN LET t == IF s.file.err = "nil" THEN [s EXCEPT !.file.err = err] ELSE s
       IN  [FileClose(t, "nil", "nil", "nil") EXCEPT !.ret = err]
  ELSE [s EXCEPT !.ret = "nil"]

(* f.Write(b), f.WriteString(s), f.ReadFrom(r): tmpf takes the first n bytes
   and reports err; a nil *os.File reports os.ErrInvalid *)
FileWrite(s, b, n, err) ==
  IF s.file.isNil
  THEN [s EXCEPT !.panicked = TRUE]
  ELSE IF s.file.err # "nil"
  THEN [s EXCEPT !.ret = s.file.err]
  ELSE IF s.file.tmpf = "nil"
  THEN processError(s, "ErrInvalid")
  ELSE processError([s EXCEPT !.tmp.data = @ \o SubSeq(b, 1, n)], err)

(* f.RollbackIfNeeded() *)
FileRollback(s) ==
  IF s.file.isNil \/ s.file.tmpf = "nil"
  THEN s
  ELSE FileClose([s EXCEPT !.file.err = "ErrRollback"], "nil", "nil", "nil")

(* the outcomes of tmpf.Write: all of b and no error, or fewer bytes and an error *)
WriteOutcomes(b) ==
  { [n |-> Len(b), err |-> "nil"] } \cup { [n |-> k, err |-> "write"] : k \in 0 .. Len(b) }

(* the state after a call of op that ended in s *)
Done(op, s) ==
  /\ file' = s.file
  /\ tmpFile' = s.tmp
  /\ pathFile' = s.path
  /\ opres' = [op |-> op, err |-> s.ret, panicked |-> s.panicked]

(* f, err := oso.SafeWrite(path): os.CreateTemp makes the temporary file, or
   fails and SafeWrite returns a nil File *)
SafeWrite ==
  /\ opres.op = "none"
  /\ before' = pathFile
  /\ \E ok \in BOOLEAN :
       IF ok
       THEN Done("SafeWrite", [OsoState EXCEPT !.file = [isNil |-> FALSE, tmpf |-> "open", err |-> "nil"],
                                               !.tmp = [exists |-> TRUE, data |-> << >>]])
       ELSE Done("SafeWrite", [OsoState EXCEPT !.ret = "PathError"])
  /\ UNCHANGED << genVars, codecVars, wrote, nwrites >>

WriteCall(op) ==
  /\ opres.op # "none"
  /\ nwrites < MaxWrites
  /\ nwrites' = nwrites + 1
  /\ \E b \in DataInputs : \E o \in WriteOutcomes(b) :
       LET s == FileWrite(OsoState, b, o.n, o.err)
       IN  /\ Done(op, s)
           /\ wrote' = IF s.ret = "nil" /\ ~ s.panicked THEN wrote \o b ELSE wrote
  /\ UNCHANGED << genVars, codecVars, before >>

(* n, err := f.Write(b) *)
Write == WriteCall("Write")

(* n, err := f.WriteString(s) *)
WriteString == WriteCall("WriteString")

(* n, err := f.ReadFrom(r) *)
ReadFrom == WriteCall("ReadFrom")

(* err := f.Close(); a nil File is dereferenced *)
Close ==
  /\ opres.op # "none"
  /\ \E errSync \in {"nil", "sync"} : \E errClose \in {"nil", "close"} :
     \E errRename \in {"nil", "rename"} :
       IF file.isNil
       THEN Done("Close", [OsoState EXCEPT !.panicked = TRUE])
       ELSE Done("Close", FileClose(OsoState, errSync, errClose, errRename))
  /\ UNCHANGED << genVars, codecVars, before, wrote, nwrites >>

(* f.RollbackIfNeeded() *)
RollbackIfNeeded ==
  /\ opres.op # "none"
  /\ Done("RollbackIfNeeded", FileRollback(OsoState))
  /\ UNCHANGED << genVars, codecVars, before, wrote, nwrites >>

InitFile ==
  /\ GenInit({epochAdjust})
  /\ CodecInit({Invalid}, {0}, {<< >>}, {<< >>})
  /\ OsoInit(PathInputs)

NextFile ==
  \/ SafeWrite
  \/ Write
  \/ WriteString
  \/ ReadFrom
  \/ Close
  \/ RollbackIfNeeded

SpecFile == InitFile /\ [][NextFile]_vars

(* ------------------------------------------------------------------ *)
(* Properties of the Generator                                          *)
(* ------------------------------------------------------------------ *)

Returned == 1..Len(hist)

Consecutive == 1..(Len(hist) - 1)

KeyTimestamp(key) == Shr(key, randomBits)

(* C1: keys are ordered like the Create calls, under any interleaving of
   concurrent callers.  Stated for calls that do not overlap, a case of the
   order of the returns: a call that returns before another call is invoked
   has the strictly smaller key *)
C1_KeysOrderedLikeCalls ==
  \A i, j \in Returned :
     hist[i].ret <= hist[j].inv => Lt(hist[i].key, hist[j].key)

(* C2: no two Create calls on one generator return the same key, under any
   interleaving of concurrent callers *)
C2_NoDuplicateKey ==
  \A i, j \in Returned : i # j => hist[i].key # hist[j].key

(* C3: a single caller with a fixed discriminator gets strictly increasing
   keys, also across sequence exhaustion and the sleep-and-retry *)
C3_FixedDiscriminatorIncreasing ==
  \A i \in Consecutive :
     hist[i].appID = hist[i + 1].appID => Lt(hist[i].key, hist[i + 1].key)

(* two calls with the same discriminator, the later of which found the
   sequence space used up, slept and retried *)
C3_Witness ==
  \E i \in Consecutive :
     /\ hist[i].appID = hist[i + 1].appID
     /\ hist[i + 1].tries > 1
     /\ hist[i].seq = SeqLimit(gen) - 1

C5_AppIDFidelity ==
  \A i \in Returned : AppID(gen, hist[i].key) = hist[i].appID

(* a key with the largest discriminator of the widest width and a sequence
   number that is not 0 *)
C5_Witness ==
  \E i \in Returned :
     /\ gen.appBits = MaxAppBits
     /\ hist[i].appID = gen.appMax - 1
     /\ hist[i].seq > 0

(* C8: every key that Create returns is valid, i.e. not 0 *)
C8_CreateNeverReturnsInvalid ==
  \A i \in Returned : IsValid(hist[i].key)

(* New has been called *)
NewCalled == newBits # -1

(* C19: New(appBits) aborts exactly when appBits > 20; for appBits in 0..20
   it returns a generator with lastTS = 0, nextSeq = 0 and
   MaxAppID() = 2^appBits - 1 *)
C19_NewRejectsWideAppBits ==
  NewCalled =>
    /\ phase = "failed" <=> newBits > MaxAppBits
    /\ phase = "run" <=> newBits \in 0..MaxAppBits
    /\ phase = "run" =>
         /\ gen.appBits = newBits
         /\ MaxAppID(gen) = FromNat(2^newBits - 1)
         /\ calls = 0 => gen.lastTS = Zero /\ gen.nextSeq = 0

(* New(20) has returned and Create has not been called yet *)
C19_Witness ==
  /\ phase = "run"
  /\ newBits = MaxAppBits
  /\ calls = 0
  /\ MaxAppID(gen) = << 65535, 15, 0, 0 >>

(* C20: Create(appID) aborts at its range check exactly when
   appID >= 2^appBits, for a generator built by New and for the zero-value
   Generator; the call is rejected before the critical section, so it leaves
   lastTS and nextSeq, and the mutex, as they were *)
C20_RangeCheck ==
  [][calls' = calls + 1 =>
       IF pc' = pc
       THEN /\ aborted'.kind = "range"
            /\ aborted'.rejected >= 2^gen.appBits
            /\ gen' = gen /\ mx' = mx
       ELSE \A c \in Callers :
              pc'[c] # pc[c] => loc'[c].appID < 2^gen.appBits]_vars

(* the zero-value Generator has returned a key for Create(0) and has then
   rejected Create(1) *)
C20_Witness ==
  /\ phase = "run" /\ ~ NewCalled
  /\ nret > 0
  /\ aborted = [kind |-> "range", rejected |-> 1]
  /\ gen.lastTS # Zero

(* x <= y as unsigned numbers *)
Le(x, y) == ~ Lt(y, x)

(* no Create call is running; the single caller is in this state whenever
   its call has returned *)
NoCallRunning == \A c \in Callers : pc[c] = "idle"

(* the key returned last, looked at when no call is running.  With a single
   caller every returned key is the newest one in the state its call returns
   to, so what holds of the newest key in these states holds of every
   returned key *)
Newest == { i \in Returned : i = Len(hist) /\ NoCallRunning }

(* the key returned last and the key returned before it *)
NewestPair == { i \in Consecutive : i + 1 = Len(hist) /\ NoCallRunning }

(* C21: the upper 42 bits of a returned key are the clock reading of the
   call's last loop iteration minus the epoch, so key.Time() is that reading;
   Create returns no key for a reading before the epoch or after the 42-bit
   range, so no key carries a truncated or wrapped timestamp *)
C21_TimestampFidelity ==
  \A i \in Newest :
     /\ Le(epochAdjust, hist[i].milli)
     /\ Le(hist[i].milli, Add(epochAdjust, maxTimeStamp))
     /\ KeyTimestamp(hist[i].key) = Sub(hist[i].milli, epochAdjust)
     /\ Time(hist[i].key) = hist[i].milli

(* a key of the last millisecond of the 42-bit range has been returned, and
   a call in the millisecond after it has aborted *)
C21_Witness ==
  /\ aborted.kind = "epoch"
  /\ \E i \in Returned :
        /\ hist[i].milli = Add(epochAdjust, maxTimeStamp)
        /\ KeyTimestamp(hist[i].key) = maxTimeStamp

(* C22: with a single caller and a fixed discriminator the keys of one
   millisecond share timestamp and discriminator and carry the sequence
   numbers 0, 1, 2, ... in creation order; the first key of every new
   millisecond has the sequence number 0 *)
C22_SequencePerMillisecond ==
  /\ \A i \in Newest : hist[i].ret = 1 => KeySeq(gen, hist[i].key) = 0
  /\ \A i \in NewestPair :
        hist[i].appID = hist[i + 1].appID =>
          IF hist[i].milli = hist[i + 1].milli
          THEN /\ KeyTimestamp(hist[i].key) = KeyTimestamp(hist[i + 1].key)
               /\ AppID(gen, hist[i].key) = AppID(gen, hist[i + 1].key)
               /\ KeySeq(gen, hist[i + 1].key) = KeySeq(gen, hist[i].key) + 1
          ELSE /\ Lt(hist[i].milli, hist[i + 1].milli)
               /\ KeySeq(gen, hist[i + 1].key) = 0

(* a key with the sequence number 0 right after a key of the millisecond
   before with a sequence number above 0 *)
C22_Witness ==
  \E i \in Consecutive :
     /\ hist[i].appID = hist[i + 1].appID
     /\ Lt(hist[i].milli, hist[i + 1].milli)
     /\ KeySeq(gen, hist[i].key) > 0
     /\ KeySeq(gen, hist[i + 1].key) = 0

(* C24: MaxAppID() is the largest discriminator that Create accepts, also
   for the zero-value Generator: a call with appID <= MaxAppID() is not
   rejected and a call with appID > MaxAppID() is *)
C24_MaxAppIDIsLargestAccepted ==
  [][calls' = calls + 1 =>
       IF pc' = pc
       THEN Lt(MaxAppID(gen), FromNat(aborted'.rejected))
       ELSE \A c \in Callers :
              pc'[c] # pc[c] => Le(FromNat(loc'[c].appID), MaxAppID(gen))]_vars

(* the packed fields of a key as a sum: ts * 2^22 + appID * 2^(22 - appBits) + seq *)
Packed(g, ts, appID, seq) ==
  Add(Add(Shl(ts, randomBits), FromNat(appID * 2^(randomBits - g.appBits))),
      FromNat(seq))

(* C27: every returned key is (ts << 22) | (appID << (22 - appBits)) | seq
   with seq < 2^(22 - appBits), the three fields do not overlap, and
   gen.AppID(key) and gen.KeySeq(key) return the appID and the seq that were
   packed *)
C27_FieldLayout ==
  \A i \in Newest :
     /\ hist[i].seq < 2^(randomBits - gen.appBits)
     /\ hist[i].appID < 2^gen.appBits
     /\ hist[i].key = Packed(gen, Sub(hist[i].milli, epochAdjust),
                             hist[i].appID, hist[i].seq)
     /\ KeyTimestamp(hist[i].key) = Sub(hist[i].milli, epochAdjust)
     /\ AppID(gen, hist[i].key) = hist[i].appID
     /\ KeySeq(gen, hist[i].key) = hist[i].seq

(* with the width 20 a call found the sequence value 4, slept, and returned
   a key of the next millisecond right after the key with the sequence
   value 3 *)
C27_Witness ==
  /\ gen.appBits = MaxAppBits
  /\ \E i \in Consecutive :
        /\ hist[i].seq = SeqLimit(gen) - 1
        /\ hist[i].appID = gen.appMax - 1
        /\ hist[i + 1].tries > 1
        /\ hist[i + 1].appID = gen.appMax - 1

(* C29: the timestamp packed into a returned key is the one its sequence
   number was allocated for: the key's timestamp plus the epoch is
   gen.lastTS at the moment the call left the critical section, under any
   interleaving of concurrent callers *)
C29_TimestampIsLastTS ==
  \A i \in Returned : Time(hist[i].key) = hist[i].csTS

(* C30 as stated: a Create that aborts at the timestamp check leaves lastTS
   and nextSeq as they were before the call.  Stated for a generator none of
   whose calls has returned a key or is running: if all its calls aborted,
   lastTS and nextSeq are still 0 *)
C30_AbortLeavesGenerator ==
  /\ phase = "run"
  /\ aborted.kind = "epoch"
  /\ nret = 0
  /\ \A c \in Callers : pc[c] = "idle"
  => gen.lastTS = Zero /\ gen.nextSeq = 0

(* C30 as amended: a Create that aborts at the timestamp check has passed
   the critical section, so lastTS is at least its clock reading and nextSeq
   counts its sequence value; the abort itself changes nothing more, and
   under a non-decreasing clock the first key returned after it is the key
   of a later millisecond with the sequence number 0, as if the aborted
   call had not happened *)
C30_AbortAfterCriticalSection ==
  /\ [](\A i \in Returned :
          hist[i].ret = 1 =>
            /\ hist[i].seq = 0
            /\ hist[i].csTS = hist[i].milli
            /\ KeySeq(gen, hist[i].key) = 0)
  /\ [][\A c \in Callers :
          pc[c] = "check" /\ pc'[c] = "idle" /\ nret' = nret =>
            /\ aborted'.kind = "epoch"
            /\ Le(loc[c].milli, gen.lastTS)
            /\ gen.nextSeq > loc[c].seq
            /\ gen' = gen]_vars

(* a call aborted one millisecond before the epoch, and the first key was
   returned in the epoch millisecond *)
C30_Witness ==
  /\ aborted.kind = "epoch"
  /\ \E i \in Returned :
        /\ hist[i].ret = 1
        /\ hist[i].milli = epochAdjust
        /\ hist[i].seq = 0

(* the call of c holds the pair (lastTS, seq) of a loop iteration that has
   left the critical section *)
HoldsPair(c) ==
  \/ pc[c] \in {"check", "sleep"}
  \/ pc[c] = "read" /\ loc[c].tries >= 1
  \/ pc[c] \in {"lock", "cs"} /\ loc[c].tries >= 2

PairOf(r) == << r.csTS, r.seq >>

(* C28: at most one call is between Lock and Unlock; the pairs (lastTS at
   the exit of the critical section, sequence value obtained) of the loop
   iterations of all calls are pairwise distinct; lastTS never decreases and
   nextSeq only grows while lastTS stays *)
C28_CriticalSectionAtomic ==
  /\ [](\A c, d \in Callers : pc[c] = "cs" /\ pc[d] = "cs" => c = d)
  /\ [](\A c \in Callers : pc[c] = "cs" <=> mx = c)
  /\ [](\A c, d \in Callers :
          c # d /\ HoldsPair(c) /\ HoldsPair(d) => PairOf(loc[c]) # PairOf(loc[d]))
  /\ [](\A c \in Callers : \A i \in Returned :
          HoldsPair(c) => PairOf(loc[c]) # PairOf(hist[i]))
  /\ [](\A i, j \in Returned : i # j => PairOf(hist[i]) # PairOf(hist[j]))
  /\ [][/\ Le(gen.lastTS, gen'.lastTS)
        /\ gen'.lastTS = gen.lastTS => gen'.nextSeq >= gen.nextSeq
        /\ gen'.lastTS # gen.lastTS => gen'.nextSeq = 1]_vars

(* a call has left the critical section with another sequence value of the
   millisecond of a returned key, while another call is inside *)
C28_Witness ==
  \E c, d \in Callers :
     /\ c # d
     /\ pc[c] = "check" /\ pc[d] = "cs"
     /\ \E i \in Returned :
           /\ hist[i].csTS = loc[c].csTS
           /\ hist[i].seq # loc[c].seq

(* C23: a call that found the sequence space exhausted returns at the latest
   on its first retry after the next millisecond tick, for any number of
   concurrent callers: a retry that has read a millisecond later than the
   one it found used up leaves the critical section with a sequence value
   that fits, and so returns *)
C23_RetryAfterTickReturns ==
  [][\A c \in Callers :
       /\ pc[c] = "cs" /\ pc'[c] = "check"
       /\ loc[c].tries >= 2
       /\ Lt(loc[c].csTS, loc[c].milli)
       => SeqFits(gen', loc'[c].seq)]_vars

(* ------------------------------------------------------------------ *)
(* Properties of the codec                                              *)
(* ------------------------------------------------------------------ *)

(* the bytes that Parse accepts as base-32 digits *)
Accepted(ch) ==
  /\ 48 <= ch
  /\ ch - 48 < Len(decode32map)
  /\ decode32map[ch - 48 + 1] \in 0..31

(* C6: Parse(k.String()) returns k and no error, for every key k *)
C6_StringParseRoundTrip ==
  cout.op = "ParseString" => cout.key = ckey /\ cout.err = "nil"

(* the round trip of the key 2^64 - 1, whose text is "FZZZZZZZZZZZZ" *)
C6_Witness ==
  /\ cout.op = "ParseString"
  /\ ckey = AllOnes
  /\ cout.str = << 70, 90, 90, 90, 90, 90, 90, 90, 90, 90, 90, 90, 90 >>

(* C7: for every key, every group size and every separator without a byte
   that Parse accepts as a digit, parsing k.Format(groupSize, separator) with
   the separators removed returns k and no error *)
C7_FormatParseRoundTrip ==
  /\ cout.op = "ParseFormat"
  /\ \A i \in 1..Len(csep) : ~ Accepted(csep[i])
  => cout.key = ckey /\ cout.err = "nil"

(* the round trip of a key that is not 0 through a text with separators *)
C7_Witness ==
  /\ cout.op = "ParseFormat"
  /\ ckey # Zero
  /\ csep = << 47, 47 >>
  /\ cgroup = 4
  /\ Len(Format(ckey, cgroup, csep)) = TempLen + 6

(* C9: whenever Parse reports an error, the key it returns is Invalid *)
C9_ParseAllOrNothing ==
  cout.op = "Parse" /\ cout.err # "nil" => cout.key = Invalid

(* C10: Parse never aborts, and a text with a byte that is neither an
   accepted digit nor an interior '-' gets the non-base-32-character error *)
C10_BadByteIsRecoverableError ==
  cout.op = "Parse" =>
    /\ cout.err # "panic"
    /\ (\E i \in 1..Len(ctext) :
          /\ ~ Accepted(ctext[i])
          /\ ~ (ctext[i] = 45 /\ i > 1 /\ i < Len(ctext)))
       => cout.err = "char"

(* ------------------------------------------------------------------ *)
(* The text form as the documentation describes it                      *)
(* ------------------------------------------------------------------ *)

(* the text without the '-' bytes that are neither its first nor its last *)
RECURSIVE WithoutInteriorFrom(_, _)
WithoutInteriorFrom(s, i) ==
  IF i > Len(s) THEN << >>
  ELSE (IF s[i] = 45 /\ i # 1 /\ i # Len(s) THEN << >> ELSE << s[i] >>)
       \o WithoutInteriorFrom(s, i + 1)

WithoutInterior(s) == WithoutInteriorFrom(s, 1)

(* a letter in upper case *)
Upper(ch) == IF 97 <= ch /\ ch <= 122 THEN ch - 32 ELSE ch

(* the digit a byte is read as: 'I' and 'L' as '1', 'O' as '0', in either case *)
Canon(ch) ==
  LET u == Upper(ch)
  IN  IF u = 73 \/ u = 76 THEN 49 ELSE IF u = 79 THEN 48 ELSE u

InAlphabet(ch) == \E k \in 1..Len(base32chars) : base32chars[k] = ch

(* the index of a character of the alphabet in base32chars, from 0 *)
IndexOf(ch) == (CHOOSE k \in 1..Len(base32chars) : base32chars[k] = ch) - 1

IsDigit(ch) == InAlphabet(Canon(ch))

DigitValue(ch) == IndexOf(Canon(ch))

(* the values of the digits of a text, most significant first *)
DigitsOf(s) ==
  LET d == SelectSeq(s, LAMBDA ch : IsDigit(ch))
  IN  [i \in 1..Len(d) |-> DigitValue(d[i])]

(* every byte is a digit or a '-' that is neither the first nor the last byte *)
OnlyDigitsAndInterior(s) ==
  \A i \in 1..Len(s) : IsDigit(s[i]) \/ (s[i] = 45 /\ i # 1 /\ i # Len(s))

RECURSIVE Significant(_)
Significant(d) ==
  IF d # << >> /\ d[1] = 0 THEN Significant(Tail(d)) ELSE d

(* the base-32 number with the digits d is below 2^64 = 16 * 32^12 *)
FitsUint64(d) ==
  LET g == Significant(d)
  IN  Len(g) < TempLen \/ (Len(g) = TempLen /\ g[1] < 16)

(* the base-32 number with the digits d, for a number below 2^64 *)
RECURSIVE NumberOf(_)
NumberOf(d) ==
  IF d = << >> THEN Zero
  ELSE Add(Shl(FromNat(d[1]), 5 * (Len(d) - 1)), NumberOf(Tail(d)))

ParseResult == [key |-> cout.key, err |-> cout.err]

(* C11 as stated: Parse(s) is Parse of s without its interior '-', and a
   '-' at the first or the last position makes Parse fail with the
   non-base-32-character error.  Stated for the texts on which Parse returns,
   which leaves the byte 0x80 of C10 aside *)
C11_EdgeSeparatorIsCharError ==
  cout.op = "Parse" /\ cout.err # "panic" =>
    /\ Parse(WithoutInterior(ctext)) = ParseResult
    /\ (/\ ctext # << >>
        /\ ctext[1] = 45 \/ ctext[Len(ctext)] = 45)
       => cout.err = "char"

(* C11 as amended: Parse(s) is Parse of s without its interior '-'; a '-' at
   the first position gives the non-base-32-character error; with a '-' at
   the last position Parse never succeeds, and gives that error whenever the
   bytes before it are digits and separators whose number fits in 64 bits *)
C11_EdgeSeparatorFails ==
  cout.op = "Parse" =>
    /\ Parse(WithoutInterior(ctext)) = ParseResult
    /\ (ctext # << >> /\ ctext[1] = 45) => cout.err = "char"
    /\ (ctext # << >> /\ ctext[Len(ctext)] = 45) =>
         /\ cout.err # "nil"
         /\ (/\ \A i \in 1..(Len(ctext) - 1) :
                   IsDigit(ctext[i]) \/ (ctext[i] = 45 /\ i # 1)
             /\ FitsUint64(DigitsOf(ctext)))
            => cout.err = "char"

(* "1--" was parsed: an interior '-' right before the '-' at the end *)
C11_Witness ==
  /\ cout.op = "Parse"
  /\ ctext = << 49, 45, 45 >>
  /\ cout.err = "char"
  /\ Parse(<< 49, 45 >>) = ParseResult

(* C12: on a text of digits and interior separators only, Parse succeeds
   exactly when the base-32 number of the digits is below 2^64, and then
   returns that number; otherwise it gives the "does not fit" error.  The
   accumulator never wraps around *)
C12_OverflowRejection ==
  cout.op = "Parse" /\ OnlyDigitsAndInterior(ctext) =>
    IF FitsUint64(DigitsOf(ctext))
    THEN cout.err = "nil" /\ cout.key = NumberOf(DigitsOf(ctext))
    ELSE cout.err = "fit"

(* "G000000000000", the text of 2^64, was rejected *)
C12_Witness ==
  /\ cout.op = "Parse"
  /\ ctext = << 71, 48, 48, 48, 48, 48, 48, 48, 48, 48, 48, 48, 48 >>
  /\ ~ FitsUint64(DigitsOf(ctext))
  /\ cout.err = "fit"

(* C13: Parse succeeds only on texts with at least 1 and at most 13 digits,
   separators not counted: the empty text and every text with 14 or more
   digits are rejected *)
C13_DigitCountBounded ==
  cout.op = "Parse" /\ cout.err = "nil" =>
    Len(DigitsOf(ctext)) \in 1..TempLen

(* the text with every byte replaced by the digit it is read as *)
Folded(s) == [i \in 1..Len(s) |-> Canon(s[i])]

(* C14: at any position 'I', 'i', 'L', 'l' decode like '1' and 'O', 'o' like
   '0', a lower-case letter decodes like its upper-case form (both accepted
   with the same value or both rejected), and a character of the alphabet
   decodes to its index in base32chars *)
C14_TypoTolerance ==
  cout.op = "Parse" =>
    /\ Parse(Folded(ctext)) = ParseResult
    /\ (/\ \A i \in 1..Len(ctext) : InAlphabet(ctext[i])
        /\ Len(ctext) < TempLen)
       => /\ cout.err = "nil"
          /\ cout.key = NumberOf([i \in 1..Len(ctext) |-> IndexOf(ctext[i])])

(* "il1LoO0" was parsed as the number with the digits 1111000 *)
C14_Witness ==
  /\ cout.op = "Parse"
  /\ ctext = << 105, 108, 49, 76, 111, 79, 48 >>
  /\ cout.err = "nil"
  /\ cout.key = NumberOf(<< 1, 1, 1, 1, 0, 0, 0 >>)

(* the indexes in base32chars of the characters of a text of the alphabet *)
IndexesOf(s) == [i \in 1..Len(s) |-> IndexOf(s[i])]

(* C15: k.String() is the shortest base-32 numeral of k: 1 to 13 characters
   of the alphabet whose number is k, without a leading '0' unless k is 0,
   which is "0"; 2^64 - 1 is "FZZZZZZZZZZZZ" *)
C15_StringIsShortestNumeral ==
  cout.op = "String" =>
    /\ Len(cout.str) \in 1..TempLen
    /\ \A i \in 1..Len(cout.str) : InAlphabet(cout.str[i])
    /\ NumberOf(IndexesOf(cout.str)) = ckey
    /\ IF ckey = Zero THEN cout.str = << 48 >> ELSE cout.str[1] # 48
    /\ ckey = AllOnes =>
         cout.str = << 70, 90, 90, 90, 90, 90, 90, 90, 90, 90, 90, 90, 90 >>

(* the text of 2^22, "40000": the zeros at its end are kept *)
C15_Witness ==
  /\ cout.op = "String"
  /\ ckey = << 0, 64, 0, 0 >>
  /\ cout.str = << 52, 48, 48, 48, 48 >>

(* the j-th of the 13 zero-padded digits of a key, counted from the left *)
DigitAt(key, j) == base32chars[(Shr(key, 5 * (TempLen - j))[1] % 32) + 1]

AllDigits(key) == [j \in 1..TempLen |-> DigitAt(key, j)]

(* sep stands in str at position i *)
SepAt(str, i, sep) ==
  /\ i + Len(sep) - 1 <= Len(str)
  /\ \A n \in 1..Len(sep) : str[i + n - 1] = sep[n]

(* str from position i on is the digits j..13 of the key, each followed by
   sep or by nothing *)
RECURSIVE Interleaved(_, _, _, _, _)
Interleaved(str, i, key, j, sep) ==
  IF j > TempLen THEN i = Len(str) + 1
  ELSE /\ i <= Len(str)
       /\ str[i] = DigitAt(key, j)
       /\ \/ Interleaved(str, i + 1, key, j + 1, sep)
          \/ /\ sep # << >>
             /\ SepAt(str, i + 1, sep)
             /\ Interleaved(str, i + 1 + Len(sep), key, j + 1, sep)

(* the 13 digits with sep between every two of them *)
RECURSIVE JoinedFrom(_, _, _)
JoinedFrom(key, j, sep) ==
  IF j = TempLen THEN << DigitAt(key, j) >>
  ELSE << DigitAt(key, j) >> \o sep \o JoinedFrom(key, j + 1, sep)

(* C16: Format returns the 13 zero-padded digits of the key, most significant
   first, interleaved only with whole copies of the separator; just the 13
   digits when the separator is empty or groupSize >= 13; and for every
   groupSize <= 0 what it returns for groupSize 1 *)
C16_FormatDigitsAndSeparators ==
  cout.op = "Format" =>
    /\ Interleaved(cout.str, 1, ckey, 1, csep)
    /\ (csep = << >> \/ cgroup >= TempLen) => cout.str = AllDigits(ckey)
    /\ cgroup <= 1 => cout.str = JoinedFrom(ckey, 1, csep)

(* a key formatted with the group size 0 and the separator "3", which is
   one of the key's own digits *)
C16_Witness ==
  /\ cout.op = "Format"
  /\ cgroup = 0
  /\ csep = << 51 >>
  /\ ckey = << 9976, 19572, 17185, 61444 >>
  /\ Len(cout.str) = 2 * TempLen - 1

(* Format groups: 1 <= groupSize <= 12 and a separator that is not empty *)
Grouping == cout.op = "Format" /\ cgroup \in 1..(TempLen - 1) /\ csep # << >>

(* the digits j..13, a separator after each digit whose position is in after *)
RECURSIVE PlacedFrom(_, _, _, _)
PlacedFrom(key, j, sep, after) ==
  IF j > TempLen THEN << >>
  ELSE << DigitAt(key, j) >> \o (IF j \in after THEN sep ELSE << >>)
       \o PlacedFrom(key, j + 1, sep, after)

(* C17: a separator follows the i-th digit from the left, 1 <= i <= 12,
   exactly when 13 - i is a multiple of groupSize; the groups are
   right-aligned and no separator stands before the first or after the last
   digit *)
C17_GroupsRightAligned ==
  Grouping =>
    /\ cout.str = PlacedFrom(ckey, 1, csep,
                    { i \in 1..(TempLen - 1) : (TempLen - i) % cgroup = 0 })
    /\ Len(cout.str) = TempLen + Len(csep) * ((TempLen - 1) \div cgroup)
    /\ cout.str[1] = DigitAt(ckey, 1)
    /\ cout.str[Len(cout.str)] = DigitAt(ckey, TempLen)

(* Key(0).Format(4, "-") is "0-0000-0000-0000" *)
C17_Witness ==
  /\ Grouping
  /\ ckey = Zero /\ cgroup = 4 /\ csep = << 45 >>
  /\ cout.str = << 48, 45, 48, 48, 48, 48, 45, 48, 48, 48, 48, 45, 48, 48, 48, 48 >>

(* C18 as stated: the groups are counted from the most significant digit:
   the first separator comes after groupSize digits from the left, each
   following one after a further groupSize digits *)
C18_GroupsCountedFromLeft ==
  Grouping =>
    cout.str = PlacedFrom(ckey, 1, csep,
                 { i \in 1..(TempLen - 1) : i % cgroup = 0 })

(* the first j digits in groups counted from the right *)
RECURSIVE GroupedFromRight(_, _, _, _)
GroupedFromRight(key, j, groupSize, sep) ==
  IF j <= groupSize THEN [i \in 1..j |-> DigitAt(key, i)]
  ELSE GroupedFromRight(key, j - groupSize, groupSize, sep) \o sep
       \o [i \in 1..groupSize |-> DigitAt(key, j - groupSize + i)]

(* C18 as amended: the groups are counted from the least significant digit:
   the last separator comes before the last groupSize digits, each one
   before it a further groupSize digits to the left *)
C18_GroupsCountedFromRight ==
  Grouping => cout.str = GroupedFromRight(ckey, TempLen, cgroup, csep)

(* "ABC-DEFGH-JKMNP": the group on the left has 3 digits, not 5 *)
C18_Witness ==
  /\ Grouping
  /\ cgroup = 5 /\ csep = << 45 >>
  /\ cout.str = << 65, 66, 67, 45, 68, 69, 70, 71, 72, 45, 74, 75, 77, 78, 80 >>

(* ------------------------------------------------------------------ *)
(* Properties of oso.File                                               *)
(* ------------------------------------------------------------------ *)

(* C25: the content at the destination path changes only in a Close that
   returns nil, and after a Close that returns nil the path holds exactly
   the concatenation of all data written, in order, and the temporary file
   no longer exists under its temporary name *)
C25_AtomicCommit ==
  /\ [](opres.op = "Close" /\ opres.err = "nil" /\ ~ opres.panicked
        => /\ pathFile = [exists |-> TRUE, data |-> wrote]
           /\ ~ tmpFile.exists)
  /\ [][pathFile' # pathFile
        => opres'.op = "Close" /\ opres'.err = "nil" /\ ~ opres'.panicked]_vars

(* a Close has returned nil after two write calls with data, and the
   destination, which had other content before, holds their concatenation *)
C25_Witness ==
  /\ opres.op = "Close" /\ opres.err = "nil" /\ ~ opres.panicked
  /\ before.exists /\ before.data # wrote
  /\ Len(wrote) = 3
  /\ nwrites = 2
  /\ pathFile.data = wrote

(* C26: RollbackIfNeeded on a File that has not been closed, and the
   automatic rollback after a failed write, sync, close or rename, completes
   without aborting, removes the temporary file, leaves the destination as it
   was before SafeWrite and makes Close report the error (ErrRollback for an
   explicit rollback); RollbackIfNeeded after Close, or on a nil File,
   changes nothing *)
C26_Rollback ==
  [][/\ (opres'.op = "RollbackIfNeeded" /\ file.tmpf = "open"
         => /\ ~ opres'.panicked
            /\ ~ tmpFile'.exists
            /\ pathFile' = before
            /\ file'.tmpf = "nil" /\ file'.err = "ErrRollback")
     /\ (opres'.op = "RollbackIfNeeded" /\ file.tmpf = "nil"
         => file' = file /\ tmpFile' = tmpFile /\ pathFile' = pathFile)
     /\ (/\ opres'.op \in {"Write", "WriteString", "ReadFrom", "Close"}
         /\ file.tmpf = "open" /\ file.err = "nil"
         /\ (opres'.panicked \/ opres'.err # "nil")
         => /\ ~ opres'.panicked
            /\ ~ tmpFile'.exists
            /\ pathFile' = before
            /\ file'.tmpf = "nil" /\ file'.err = opres'.err)]_vars

====
